---- MODULE Spec2Model ----
(***************************************************************************)
(* A model of balance_monitor.py: the Field Fetcher (fetch_endpoint and    *)
(* the six extraction lambdas), the Account Snapshot Builder               *)
(* (fetch_data_for_account), the CSV Appender (save_to_csv), the Account   *)
(* Monitor Loop (monitor_account) and the Supervisor (main_loop, main,     *)
(* signal_handler).                                                        *)
(*                                                                         *)
(* Python values are modelled as follows.  A dict with string keys is a    *)
(* record, a list is a sequence, a JSON string is a string.  A value that  *)
(* ends up in a CSV cell is tagged with its Python type (PyStr, PyInt,     *)
(* PyFloat): '', 0 and 0.0 are different values and print differently.  An *)
(* insertion-ordered dict (the Snapshot) is a sequence of <<key, value>>   *)
(* pairs.  A call that may raise returns Ok(value) or Raise(exception).    *)
(***************************************************************************)
EXTENDS Integers, Sequences, FiniteSets, TLC

VARIABLES
    environ,         \* os.environ once load_dotenv() has run
    shutdown_event,  \* the asyncio.Event: TRUE once set
    inFlightAtSignal,  \* the accounts whose fetches were in flight when the event was set
    pc,              \* per account: where its monitor_account task is
    cycles,          \* per account: loop iterations begun so far
    files,           \* per account: its CSV file on disk
    sleepFor,        \* per account: argument of the asyncio.sleep being awaited
    slept,           \* per account: seconds of that sleep elapsed so far
    building,        \* per account: the results dict of the fetch in flight
    lastError,       \* per account: e, the exception the except clause handles
    failures,        \* per account: cycles that raised so far
    process,         \* the Supervisor: "running", "exited" or "crashed"
    reported,        \* "Monitoring stopped." has been printed
    call,            \* one fetch_endpoint call: its column and the GET's outcome
    ret,             \* what that call returned
    taskResult,      \* snapshot builder: per column, the task's result
    results,         \* snapshot builder: the dict being returned
    finished,        \* snapshot builder: the columns in the order their tasks ended
    csvFile,         \* CSV appender: the file at the path
    csvLog           \* CSV appender: the calls made so far, with outcome

vars == <<environ, shutdown_event, inFlightAtSignal, pc, cycles, files, sleepFor,
          slept, building, lastError, failures, process, reported,
          call, ret, taskResult, results, finished, csvFile, csvLog>>

loopVars == <<environ, shutdown_event, inFlightAtSignal, pc, cycles, files, sleepFor,
              slept, building, lastError, failures, process, reported>>
endpointVars == <<call, ret>>
builderVars == <<taskResult, results, finished>>
csvVars == <<csvFile, csvLog>>

----------------------------------------------------------------------------
(* Python values *)

PyStr(s) == [t |-> "str", s |-> s, n |-> 0]
PyInt(n) == [t |-> "int", s |-> "", n |-> n]
PyFloat(n) == [t |-> "float", s |-> "", n |-> n]
EmptyStr == PyStr("")

Ok(v) == [raised |-> FALSE, value |-> v, exc |-> "none"]
Raise(e) == [raised |-> TRUE, value |-> EmptyStr, exc |-> e]

\* float(s) for a JSON string s: decimal numerals parse, anything else is a
\* ValueError.  The numerals of the model are the one-digit ones.
DigitValue == [s \in {"0", "1", "2", "3", "4", "5", "6", "7", "8", "9"} |->
                 CASE s = "0" -> 0 [] s = "1" -> 1 [] s = "2" -> 2 [] s = "3" -> 3
                   [] s = "4" -> 4 [] s = "5" -> 5 [] s = "6" -> 6 [] s = "7" -> 7
                   [] s = "8" -> 8 [] s = "9" -> 9]

float(s) == IF s \in DOMAIN DigitValue THEN Ok(PyFloat(DigitValue[s]))
            ELSE Raise("ValueError")

\* a + b as sum() computes it: int + float and float + float are floats.
Add(a, b) == IF a.t = "int" /\ b.t = "int" THEN PyInt(a.n + b.n) ELSE PyFloat(a.n + b.n)

\* sum(gen) where gen yields the Ok/Raise results in items, left to right:
\* starts from the int 0, and the first raise ends it.
RECURSIVE SumFrom(_, _, _)
SumFrom(acc, items, i) ==
    IF i > Len(items) THEN Ok(acc)
    ELSE IF items[i].raised THEN items[i]
    ELSE SumFrom(Add(acc, items[i].value), items, i + 1)

sum(items) == SumFrom(PyInt(0), items, 1)

\* d[k] on a dict: KeyError when the key is absent.
HasKey(d, k) == k \in DOMAIN d

----------------------------------------------------------------------------
(* The six Field Specifications: column names in the order of the          *)
(* endpoints list, and the extraction lambdas.                             *)

Columns == <<"account_balance", "rewards", "outstanding_rewards",
             "available-tips", "delegator_shares", "delegations">>

ColumnSet == {Columns[i] : i \in 1..Len(Columns)}

\* lambda x: x['balance']['amount']
extract_account_balance(x) ==
    IF ~HasKey(x, "balance") THEN Raise("KeyError")
    ELSE IF ~HasKey(x.balance, "amount") THEN Raise("KeyError")
    ELSE Ok(PyStr(x.balance.amount))

\* float(reward['amount']) for one element of the list
reward_amount(reward) ==
    IF ~HasKey(reward, "amount") THEN Raise("KeyError") ELSE float(reward.amount)

\* the rewards rule reading x['total'] instead of x.get('total', [])
extract_rewards_subscript(x) ==
    IF ~HasKey(x, "total") THEN Raise("KeyError")
    ELSE sum([i \in 1..Len(x.total) |-> reward_amount(x.total[i])])

\* lambda x: sum(float(reward['amount']) for reward in x.get('total', []))
extract_rewards(x) ==
    LET total == IF HasKey(x, "total") THEN x.total ELSE << >>
    IN  sum([i \in 1..Len(total) |-> reward_amount(total[i])])

\* lambda x: x['rewards']['rewards'][0]['amount']
extract_outstanding_rewards(x) ==
    IF ~HasKey(x, "rewards") THEN Raise("KeyError")
    ELSE IF ~HasKey(x.rewards, "rewards") THEN Raise("KeyError")
    ELSE IF Len(x.rewards.rewards) = 0 THEN Raise("IndexError")
    ELSE IF ~HasKey(x.rewards.rewards[1], "amount") THEN Raise("KeyError")
    ELSE Ok(PyStr(x.rewards.rewards[1].amount))

\* float(tip['amount']['amount']) for one element of the list
tip_amount(tip) ==
    IF ~HasKey(tip, "amount") THEN Raise("KeyError")
    ELSE IF ~HasKey(tip.amount, "amount") THEN Raise("KeyError")
    ELSE float(tip.amount.amount)

\* lambda x: sum(float(tip['amount']['amount']) for tip in x.get('tips', []))
extract_available_tips(x) ==
    LET tips == IF HasKey(x, "tips") THEN x.tips ELSE << >>
    IN  sum([i \in 1..Len(tips) |-> tip_amount(tips[i])])

\* lambda x: x['validator']['delegator_shares']
extract_delegator_shares(x) ==
    IF ~HasKey(x, "validator") THEN Raise("KeyError")
    ELSE IF ~HasKey(x.validator, "delegator_shares") THEN Raise("KeyError")
    ELSE Ok(PyStr(x.validator.delegator_shares))

\* float(delegation['balance']['amount']) for one element of the list
delegation_amount(delegation) ==
    IF ~HasKey(delegation, "balance") THEN Raise("KeyError")
    ELSE IF ~HasKey(delegation.balance, "amount") THEN Raise("KeyError")
    ELSE float(delegation.balance.amount)

\* lambda x: sum(float(delegation['balance']['amount'])
\*               for delegation in x['delegation_responses'])
extract_delegations(x) ==
    IF ~HasKey(x, "delegation_responses") THEN Raise("KeyError")
    ELSE sum([i \in 1..Len(x.delegation_responses) |->
                 delegation_amount(x.delegation_responses[i])])

\* extract_func(data) for the endpoint of the given column
extract_func(column, x) ==
    CASE column = "account_balance" -> extract_account_balance(x)
      [] column = "rewards" -> extract_rewards(x)
      [] column = "outstanding_rewards" -> extract_outstanding_rewards(x)
      [] column = "available-tips" -> extract_available_tips(x)
      [] column = "delegator_shares" -> extract_delegator_shares(x)
      [] column = "delegations" -> extract_delegations(x)

----------------------------------------------------------------------------
(* fetch_endpoint.  The outcome of session.get(endpoint) is either a       *)
(* transport failure (the GET raises) or a response with a status and a    *)
(* body; the body either parses as JSON (data) or does not.                *)

NetworkError == [kind |-> "network_error"]
HttpText(status) == [kind |-> "http", status |-> status, json |-> FALSE]
HttpJson(status, data) == [kind |-> "http", status |-> status, json |-> TRUE, data |-> data]

\* the body of the try block: the returned pair, or the exception it raises
fetch_endpoint_try(column, response) ==
    IF response.kind = "network_error" THEN Raise("ClientError")
    ELSE IF response.status # 200 THEN Ok(<<column, EmptyStr>>)
    ELSE IF ~response.json THEN Raise("ContentTypeError")
    ELSE LET value == extract_func(column, response.data)
         IN  IF value.raised THEN value ELSE Ok(<<column, value.value>>)

\* fetch_endpoint without its except clause: the exception leaves the call
fetch_endpoint_reraise(column, attempt) == attempt

\* except Exception as e: return column, ''
fetch_endpoint_except(column, attempt) ==
    IF attempt.raised THEN Ok(<<column, EmptyStr>>) ELSE attempt

fetch_endpoint(column, response) ==
    fetch_endpoint_except(column, fetch_endpoint_try(column, response))

----------------------------------------------------------------------------
(* fetch_data_for_account.  results starts as {'timestamp': now}; gather    *)
(* returns the tasks' results in the order of the endpoints list, whatever  *)
(* the order the tasks finished in, and raises if a task raised; the loop   *)
(* over responses does results[column] = value.                             *)

\* d[k] = v on an insertion-ordered dict: an existing key keeps its place
DictSet(d, k, v) ==
    IF \E i \in 1..Len(d) : d[i][1] = k
    THEN [i \in 1..Len(d) |-> IF d[i][1] = k THEN <<k, v>> ELSE d[i]]
    ELSE Append(d, <<k, v>>)

DictKeys(d) == [i \in 1..Len(d) |-> d[i][1]]

\* d[k] for a key the dict holds
DictGet(d, k) == d[CHOOSE i \in 1..Len(d) : d[i][1] = k][2]

\* results = {'timestamp': datetime.now().strftime(...)}
NewResults(now) == <<(<<"timestamp", PyStr(now)>>)>>

\* await asyncio.gather(*tasks): done once every task is, or once one raised
GatherDone(outs) ==
    \/ \A c \in ColumnSet : outs[c].done
    \/ \E c \in ColumnSet : outs[c].done /\ outs[c].out.raised

\* the results taken as the tasks finish (asyncio.as_completed), not in task
\* order
GatherList_as_completed(outs) ==
    [i \in 1..Len(finished) |-> outs[finished[i]].out.value]

\* the list gather returns: one result per task, in task order
GatherList(outs) == [i \in 1..Len(Columns) |-> outs[Columns[i]].out.value]

\* the merge loop keeping only the columns that were fetched:
\* "if value != '': results[column] = value"
RECURSIVE MergeFetched(_, _, _)
MergeFetched(d, responses, i) ==
    IF i > Len(responses) THEN d
    ELSE MergeFetched(IF responses[i][2] = EmptyStr THEN d
                      ELSE DictSet(d, responses[i][1], responses[i][2]),
                      responses, i + 1)

\* for column, value in responses: results[column] = value
RECURSIVE MergeFrom(_, _, _)
MergeFrom(d, responses, i) ==
    IF i > Len(responses) THEN d
    ELSE MergeFrom(DictSet(d, responses[i][1], responses[i][2]), responses, i + 1)

\* what fetch_data_for_account returns (or raises) once gather is done
BuilderReturn(d, outs) ==
    IF \E c \in ColumnSet : outs[c].done /\ outs[c].out.raised
    THEN Raise(outs[CHOOSE c \in ColumnSet : outs[c].done /\ outs[c].out.raised].out.exc)
    ELSE Ok(MergeFrom(d, GatherList(outs), 1))

\* the whole call, given the clock reading and each endpoint's GET outcome
fetch_data_for_account(now, responses) ==
    BuilderReturn(NewResults(now),
                  [c \in ColumnSet |->
                      [done |-> TRUE, out |-> fetch_endpoint(c, responses[c])]])

----------------------------------------------------------------------------
(* save_to_csv.  A file is whether the path exists and its lines; a line   *)
(* is the sequence of its cells' texts.  The texts of the model hold no    *)
(* comma, quote or line break, so the csv module writes them unquoted.     *)

DigitText == [d \in 0..9 |->
                CASE d = 0 -> "0" [] d = 1 -> "1" [] d = 2 -> "2" [] d = 3 -> "3"
                  [] d = 4 -> "4" [] d = 5 -> "5" [] d = 6 -> "6" [] d = 7 -> "7"
                  [] d = 8 -> "8" [] d = 9 -> "9"]

\* str(n) for a natural number
RECURSIVE NatText(_)
NatText(n) == IF n < 10 THEN DigitText[n]
              ELSE NatText(n \div 10) \o DigitText[n % 10]

\* the text csv.writer puts in a cell: str(value); a whole float prints "n.0"
CsvCell(v) ==
    CASE v.t = "str" -> v.s
      [] v.t = "int" -> NatText(v.n)
      [] v.t = "float" -> NatText(v.n) \o ".0"

NoFile == [exists |-> FALSE, lines |-> << >>]

\* writer.writeheader(): the fieldnames, data.keys()
HeaderLine(data) == DictKeys(data)

\* writer.writerow(data): data's value for each fieldname, in fieldnames order
RowLine(data) ==
    LET fieldnames == DictKeys(data)
    IN  [i \in 1..Len(fieldnames) |-> CsvCell(DictGet(data, fieldnames[i]))]

\* save_to_csv writing the header on every call, whether the file existed
save_to_csv_always_header(data, file, fault) ==
    LET opened == [exists |-> TRUE, lines |-> file.lines]
        headed == [opened EXCEPT !.lines = Append(@, HeaderLine(data))]
        rowed == [headed EXCEPT !.lines = Append(@, RowLine(data))]
    IN  IF fault = "open" THEN [file |-> file, raised |-> TRUE, exc |-> "OSError"]
        ELSE IF fault = "header" THEN [file |-> opened, raised |-> TRUE, exc |-> "OSError"]
        ELSE IF fault = "row" THEN [file |-> headed, raised |-> TRUE, exc |-> "OSError"]
        ELSE [file |-> rowed, raised |-> FALSE, exc |-> "none"]

\* the write handed to a worker that is never awaited: the call returns at
\* once and the file is as it was when the next cycle begins
save_to_csv_not_awaited(data, file, fault) ==
    [file |-> file, raised |-> FALSE, exc |-> "none"]

\* save_to_csv opening the file with mode 'w': the open truncates it
save_to_csv_truncating(data, file, fault) ==
    LET file_exists == file.exists
        opened == [exists |-> TRUE, lines |-> << >>]
        headed == IF ~file_exists
                  THEN [opened EXCEPT !.lines = Append(@, HeaderLine(data))]
                  ELSE opened
        rowed == [headed EXCEPT !.lines = Append(@, RowLine(data))]
    IN  IF fault = "open" THEN [file |-> file, raised |-> TRUE, exc |-> "OSError"]
        ELSE IF ~file_exists /\ fault = "header"
             THEN [file |-> opened, raised |-> TRUE, exc |-> "OSError"]
        ELSE IF fault = "row" THEN [file |-> headed, raised |-> TRUE, exc |-> "OSError"]
        ELSE [file |-> rowed, raised |-> FALSE, exc |-> "none"]

\* The call on file with an I/O fault striking at "open", "header" or "row"
\* ("none": no fault).  A fault raises OSError where it strikes and leaves
\* on disk what was written before it.
save_to_csv(data, file, fault) ==
    LET file_exists == file.exists
        opened == [exists |-> TRUE, lines |-> file.lines]
        headed == IF ~file_exists
                  THEN [opened EXCEPT !.lines = Append(@, HeaderLine(data))]
                  ELSE opened
        rowed == [headed EXCEPT !.lines = Append(@, RowLine(data))]
    IN  IF fault = "open" THEN [file |-> file, raised |-> TRUE, exc |-> "OSError"]
        ELSE IF ~file_exists /\ fault = "header"
             THEN [file |-> opened, raised |-> TRUE, exc |-> "OSError"]
        ELSE IF fault = "row" THEN [file |-> headed, raised |-> TRUE, exc |-> "OSError"]
        ELSE [file |-> rowed, raised |-> FALSE, exc |-> "none"]

Faults == {"none", "open", "header", "row"}

----------------------------------------------------------------------------
(* Bounds and the inputs drawn from them *)

MaxItems == 2      \* longest list in a response body
MaxWrites == 3     \* save_to_csv calls in a run of the CSV appender
MaxCycles == 2     \* iterations one monitor loop begins

\* texts of an 'amount' field: a numeral and a text float() rejects
AmountTexts == {"7", "x"}

\* readings of the clock, as strftime('%Y-%m-%d %H:%M:%S') prints them
Timestamps == {"2025-01-01 00:00:00", "2025-01-01 00:05:00"}

ListsOf(S) == UNION {[1..n -> S] : n \in 0..MaxItems}

\* an error object, as a node returns it: none of the expected keys
ErrorBody == [code |-> "5", message |-> "not found"]

\* JSON bodies of each endpoint: the documented shape, and deviations of it
Bodies(column) ==
    CASE column = "account_balance" ->
           {[balance |-> [denom |-> "loya", amount |-> a]] : a \in AmountTexts}
             \cup {[balance |-> [denom |-> "loya"]], ErrorBody}
      [] column = "rewards" ->
           {[rewards |-> << >>, total |-> l] :
               l \in ListsOf({[denom |-> "loya", amount |-> a] : a \in AmountTexts}
                               \cup {[denom |-> "loya"]})}
             \cup {ErrorBody}
      [] column = "outstanding_rewards" ->
           {[rewards |-> [rewards |-> l]] :
               l \in ListsOf({[denom |-> "loya", amount |-> a] : a \in AmountTexts}
                               \cup {[denom |-> "loya"]})}
             \cup {[rewards |-> [code |-> "5"]], ErrorBody}
      [] column = "available-tips" ->
           {[tips |-> l] :
               l \in ListsOf({[amount |-> [denom |-> "loya", amount |-> a]] : a \in AmountTexts}
                               \cup {[amount |-> [denom |-> "loya"]], [denom |-> "loya"]})}
             \cup {ErrorBody}
      [] column = "delegator_shares" ->
           {[validator |-> [operator_address |-> "val1", delegator_shares |-> a]] :
               a \in AmountTexts}
             \cup {[validator |-> [operator_address |-> "val1"]], ErrorBody}
      [] column = "delegations" ->
           {[delegation_responses |-> l] :
               l \in ListsOf({[balance |-> [denom |-> "loya", amount |-> a]] : a \in AmountTexts}
                               \cup {[balance |-> [denom |-> "loya"]], [delegation |-> "d"]})}
             \cup {ErrorBody}

\* outcomes of the GET of a column's endpoint
Responses(column) ==
    {NetworkError, HttpText(200), HttpText(500)}
      \cup {HttpJson(200, b) : b \in Bodies(column)}
      \cup {HttpJson(500, b) : b \in Bodies(column)}

\* the GET failed or the column could not be extracted from its answer
FetchFailed(column, response) ==
    \/ response.kind = "network_error"
    \/ response.status # 200
    \/ ~response.json
    \/ extract_func(column, response.data).raised

----------------------------------------------------------------------------
(* Values the variables of one component hold while another is checked *)

NoCall == [column |-> "", response |-> NetworkError]
NoReturn == [returned |-> FALSE]
NotDone == [done |-> FALSE]

LoopIdle ==
    /\ environ = << >>
    /\ shutdown_event = FALSE
    /\ inFlightAtSignal = {}
    /\ pc = << >>
    /\ cycles = << >>
    /\ files = << >>
    /\ sleepFor = << >>
    /\ slept = << >>
    /\ building = << >>
    /\ lastError = << >>
    /\ failures = << >>
    /\ process = "idle"
    /\ reported = FALSE

EndpointIdle == call = NoCall /\ ret = NoReturn

BuilderIdle == taskResult = << >> /\ results = NoReturn /\ finished = << >>

CsvIdle == csvFile = NoFile /\ csvLog = << >>

----------------------------------------------------------------------------
(* The Field Fetcher alone: one fetch_endpoint call on every column and    *)
(* every outcome of its GET.                                               *)

InitEndpoint ==
    /\ call \in UNION {{[column |-> c, response |-> r] : r \in Responses(c)} :
                          c \in ColumnSet}
    /\ ret = NoReturn
    /\ LoopIdle /\ BuilderIdle /\ CsvIdle

FetchEndpointReturn ==
    /\ ~ret.returned
    /\ ret' = [returned |-> TRUE, out |-> fetch_endpoint(call.column, call.response)]
    /\ UNCHANGED <<call, loopVars, builderVars, csvVars>>

NextEndpoint == FetchEndpointReturn

SpecEndpoint == InitEndpoint /\ [][NextEndpoint]_vars

----------------------------------------------------------------------------
(* The Account Snapshot Builder alone: one fetch_data_for_account call,    *)
(* its six fetch_endpoint tasks finishing in any order with any outcome.   *)

InitBuilder ==
    /\ taskResult = [c \in ColumnSet |-> NotDone]
    /\ results \in {[returned |-> FALSE, dict |-> NewResults(now)] : now \in Timestamps}
    /\ finished = << >>
    /\ LoopIdle /\ EndpointIdle /\ CsvIdle

FetchTaskComplete(column, response) ==
    /\ ~results.returned
    /\ ~taskResult[column].done
    /\ taskResult' = [taskResult EXCEPT ![column] =
                         [done |-> TRUE,
                          failed |-> FetchFailed(column, response),
                          out |-> fetch_endpoint(column, response)]]
    /\ UNCHANGED <<results, finished, loopVars, endpointVars, csvVars>>

GatherComplete ==
    /\ ~results.returned
    /\ GatherDone(taskResult)
    /\ results' = [returned |-> TRUE, out |-> BuilderReturn(results.dict, taskResult)]
    /\ UNCHANGED <<taskResult, finished, loopVars, endpointVars, csvVars>>

NextBuilder ==
    \/ \E column \in ColumnSet : \E response \in Responses(column) :
          FetchTaskComplete(column, response)
    \/ GatherComplete

SpecBuilder == InitBuilder /\ [][NextBuilder]_vars

----------------------------------------------------------------------------
(* The CSV Appender alone: save_to_csv called again and again on one path, *)
(* which at first does not exist or holds an earlier run's file, each call *)
(* with a snapshot the builder can return and an I/O fault or none.        *)

\* the body each endpoint documents, with one element in each list
FullBody(column) ==
    CASE column = "account_balance" -> [balance |-> [denom |-> "loya", amount |-> "7"]]
      [] column = "rewards" ->
           [rewards |-> << >>, total |-> <<[denom |-> "loya", amount |-> "7"]>>]
      [] column = "outstanding_rewards" ->
           [rewards |-> [rewards |-> <<[denom |-> "loya", amount |-> "7"]>>]]
      [] column = "available-tips" ->
           [tips |-> <<[amount |-> [denom |-> "loya", amount |-> "7"]]>>]
      [] column = "delegator_shares" ->
           [validator |-> [operator_address |-> "val1", delegator_shares |-> "7"]]
      [] column = "delegations" ->
           [delegation_responses |-> <<[balance |-> [denom |-> "loya", amount |-> "7"]]>>]

\* what the node answers in one cycle: every endpoint well, the rewards
\* endpoint with HTTP 500, or no endpoint reachable
AllUp == [c \in ColumnSet |-> HttpJson(200, FullBody(c))]
RewardsDown == [AllUp EXCEPT !["rewards"] = HttpText(500)]
AllDown == [c \in ColumnSet |-> NetworkError]
NodeAnswers == {AllUp, RewardsDown, AllDown}

\* snapshots handed to save_to_csv
CsvInputs ==
    {fetch_data_for_account("2025-01-01 00:00:00", answers).value :
        answers \in NodeAnswers}
      \cup {fetch_data_for_account("2025-01-01 00:05:00", AllUp).value}

\* files an earlier run left at the path
EarlierFiles ==
    LET d == fetch_data_for_account("2024-12-31 23:55:00", AllUp).value
    IN  {[exists |-> TRUE, lines |-> << >>],
         [exists |-> TRUE, lines |-> <<HeaderLine(d)>>],
         [exists |-> TRUE, lines |-> <<HeaderLine(d), RowLine(d)>>]}

InitCsv ==
    /\ csvFile \in {NoFile} \cup EarlierFiles
    /\ csvLog = << >>
    /\ LoopIdle /\ EndpointIdle /\ BuilderIdle

SaveToCsv(data, fault) ==
    /\ Len(csvLog) < MaxWrites
    /\ LET r == save_to_csv(data, csvFile, fault)
       IN  /\ csvFile' = r.file
           /\ csvLog' = Append(csvLog, [data |-> data,
                                        existed |-> csvFile.exists,
                                        raised |-> r.raised])
    /\ UNCHANGED <<loopVars, endpointVars, builderVars>>

NextCsv == \E data \in CsvInputs : \E fault \in Faults : SaveToCsv(data, fault)

SpecCsv == InitCsv /\ [][NextCsv]_vars

----------------------------------------------------------------------------
(* The same call with the order in which its six tasks finish kept: every  *)
(* column's GET either answers in full or fails, and the tasks finish in   *)
(* any of the 720 orders.                                                  *)

InitOrder ==
    /\ taskResult = [c \in ColumnSet |-> NotDone]
    /\ results \in {[returned |-> FALSE, dict |-> NewResults(now)] :
                        now \in {"2025-01-01 00:00:00"}}
    /\ finished = << >>
    /\ LoopIdle /\ EndpointIdle /\ CsvIdle

FetchTaskCompleteNoted(column, response) ==
    /\ ~results.returned
    /\ ~taskResult[column].done
    /\ taskResult' = [taskResult EXCEPT ![column] =
                         [done |-> TRUE,
                          failed |-> FetchFailed(column, response),
                          out |-> fetch_endpoint(column, response)]]
    /\ finished' = Append(finished, column)
    /\ UNCHANGED <<results, loopVars, endpointVars, csvVars>>

NextOrder ==
    \/ \E column \in ColumnSet : \E answers \in {AllUp, AllDown} :
          FetchTaskCompleteNoted(column, answers[column])
    \/ GatherComplete

SpecOrder == InitOrder /\ [][NextOrder]_vars

----------------------------------------------------------------------------
(* The Supervisor and the Account Monitor Loops.  main has installed the   *)
(* signal handlers and asyncio.run(main_loop()) has created one            *)
(* monitor_account task per account.  A task is at "top" (about to test the*)
(* while condition), "fetching" (awaiting fetch_data_for_account),         *)
(* "sleeping" (awaiting asyncio.sleep), "stopped" (returned), "raised" (an *)
(* exception left it) or "cancelled" (asyncio.run cancelled it on exit).    *)
(* Time passes in ticks; a sleep ends no earlier than its argument.        *)

\* what os.getenv returns: None for a variable that is not set, else its text
None == [none |-> TRUE, s |-> ""]
Text(s) == [none |-> FALSE, s |-> s]

\* the truth value Python gives an os.getenv result
bool(v) == ~v.none /\ v.s # ""

\* how an f-string prints an os.getenv result
str(v) == IF v.none THEN "None" ELSE v.s

getenv(key) == environ[key]

\* ACCOUNTS = [{'name': os.getenv('ACCOUNT_NAME1'), ...}, ...]: two of the
\* four slots
ACCOUNTS ==
    <<[name |-> getenv("ACCOUNT_NAME1"),
       address |-> getenv("TELLOR_ADDRESS1"),
       valoper_address |-> getenv("TELLORVALOPER_ADDRESS1")],
      [name |-> getenv("ACCOUNT_NAME2"),
       address |-> getenv("TELLOR_ADDRESS2"),
       valoper_address |-> getenv("TELLORVALOPER_ADDRESS2")]>>

\* one monitor_account task per entry of ACCOUNTS
Tasks == {1, 2}

\* the check of one account that looks at its name only
all_values_name_only(account) == bool(account.name)

\* all(account.values())
all_values(account) ==
    bool(account.name) /\ bool(account.address) /\ bool(account.valoper_address)

\* if not all(account.values()) for some account: raise ValueError
validation_raises == \E i \in Tasks : ~all_values(ACCOUNTS[i])

\* an environment naming two accounts A and B in full
Configured ==
    [ACCOUNT_NAME1 |-> Text("A"), TELLOR_ADDRESS1 |-> Text("addr1"),
     TELLORVALOPER_ADDRESS1 |-> Text("val1"),
     ACCOUNT_NAME2 |-> Text("B"), TELLOR_ADDRESS2 |-> Text("addr2"),
     TELLORVALOPER_ADDRESS2 |-> Text("val2")]

\* the environments the program is started in: every variable may be unset,
\* a name may be empty, and both slots may be given the same name
NameValues == {None, Text(""), Text("A"), Text("B")}
Environments ==
    [ACCOUNT_NAME1 : NameValues, TELLOR_ADDRESS1 : {None, Text("addr1")},
     TELLORVALOPER_ADDRESS1 : {None, Text("val1")},
     ACCOUNT_NAME2 : NameValues, TELLOR_ADDRESS2 : {None, Text("addr2")},
     TELLORVALOPER_ADDRESS2 : {None, Text("val2")}]

\* one log file for all accounts instead of one per account
filename_shared(account) == "balances.csv"

\* filename = f"{account['name']}.csv"
filename(account) == str(account.name) \o ".csv"

Filenames == {filename(ACCOUNTS[i]) : i \in Tasks}

\* the minutes of the comment passed to asyncio.sleep as its seconds
PollSleepInMinutes == 300 \div 60

PollSleep == 300     \* await asyncio.sleep(300)  # Wait 5 minutes

\* the except clause sleeping as long as a successful cycle does
RetrySleepAsPoll == PollSleep

RetrySleep == 60     \* await asyncio.sleep(60)  # Wait 1 minute before retry
TickLen == 100       \* seconds of one tick of time

Min(a, b) == IF a < b THEN a ELSE b

\* what the node answers in a cycle of a monitor loop
LoopAnswers == {AllUp, AllDown}

\* what datetime.now() prints when a cycle of a monitor loop begins
ClockReadings == {"2025-01-01 00:00:00"}

\* monitor_account with "while True:" as its loop
while_true == TRUE

\* while not shutdown_event.is_set()
while_condition == ~shutdown_event

\* "except ValueError as e" in place of "except Exception as e"
except_ValueError(exc) == exc = "ValueError"

\* except Exception as e: every exception of the model is an Exception
\* subclass except the cancellation of a task
except_Exception(exc) == exc # "CancelledError"

\* main_loop returning as soon as one task is done
\* (asyncio.wait(..., return_when=FIRST_COMPLETED))
first_task_done == \E i \in Tasks : pc[i] \in {"stopped", "raised"}

\* await asyncio.gather(*tasks): returns once every task returned, raises
\* once one task raised
gather_done ==
    \/ \A i \in Tasks : pc[i] = "stopped"
    \/ \E i \in Tasks : pc[i] = "raised"

\* what "await fetch_data_for_account(account)" gives once the six tasks are
\* done: the dict begun at the call merged with the six results, or the
\* exception gather raised
AwaitedSnapshot ==
    [d \in {NewResults(now) : now \in ClockReadings}, answers \in LoopAnswers |->
        BuilderReturn(d, [c \in ColumnSet |->
                            [done |-> TRUE, out |-> fetch_endpoint(c, answers[c])]])]

Init ==
    /\ environ = Configured
    /\ shutdown_event = FALSE
    /\ inFlightAtSignal = {}
    /\ pc = [i \in Tasks |-> "top"]
    /\ cycles = [i \in Tasks |-> 0]
    /\ files = [f \in Filenames |-> NoFile]
    /\ sleepFor = [i \in Tasks |-> 0]
    /\ slept = [i \in Tasks |-> 0]
    /\ building = [i \in Tasks |-> << >>]
    /\ lastError = [i \in Tasks |-> "none"]
    /\ failures = [i \in Tasks |-> 0]
    /\ process = "running"
    /\ reported = FALSE
    /\ EndpointIdle /\ BuilderIdle /\ CsvIdle

otherVars == <<environ, endpointVars, builderVars, csvVars>>

\* a handler that flips the event: a second signal clears it
signal_handler_toggle ==
    /\ process = "running"
    /\ shutdown_event' = ~shutdown_event
    /\ UNCHANGED <<pc, cycles, files, sleepFor, slept, building, lastError,
                   failures, process, reported, otherVars>>

\* a handler that also cancels the tasks whose fetches are in flight
signal_handler_cancel ==
    /\ process = "running"
    /\ shutdown_event' = TRUE
    /\ pc' = [i \in Tasks |-> IF pc[i] = "fetching" THEN "stopped" ELSE pc[i]]
    /\ UNCHANGED <<cycles, files, sleepFor, slept, building, lastError,
                   failures, process, reported, otherVars>>

\* signal_handler(signum, frame), on SIGINT or SIGTERM
signal_handler ==
    /\ process = "running"
    /\ shutdown_event' = TRUE
    /\ UNCHANGED <<pc, cycles, files, sleepFor, slept, building, lastError,
                   failures, process, reported, otherVars>>

\* a signal is delivered
Signal == signal_handler /\ UNCHANGED inFlightAtSignal

\* a signal is delivered, and the first one notes whose fetches are in flight
SignalNoted ==
    /\ signal_handler
    /\ inFlightAtSignal' = IF shutdown_event THEN inFlightAtSignal
                                            ELSE {i \in Tasks : pc[i] = "fetching"}

\* the while condition is false: monitor_account returns
LoopExit(i) ==
    /\ pc[i] = "top"
    /\ ~while_condition
    /\ pc' = [pc EXCEPT ![i] = "stopped"]
    /\ UNCHANGED <<shutdown_event, cycles, files, sleepFor, slept, building,
                   lastError, failures, process, reported, inFlightAtSignal,
                   otherVars>>

\* the while condition is true: fetch_data_for_account is called, takes the
\* timestamp, starts the six fetches and awaits them
CycleBegin(i, now) ==
    /\ pc[i] = "top"
    /\ while_condition
    /\ cycles[i] < MaxCycles
    /\ pc' = [pc EXCEPT ![i] = "fetching"]
    /\ cycles' = [cycles EXCEPT ![i] = @ + 1]
    /\ building' = [building EXCEPT ![i] = NewResults(now)]
    /\ UNCHANGED <<shutdown_event, files, sleepFor, slept, lastError, failures,
                   process, reported, inFlightAtSignal,
                   otherVars>>

\* the rest of the iteration once the fetches are done: the snapshot is
\* merged and returned, save_to_csv appends it, and the task sleeps 300 s;
\* an exception on the way is caught by the except clause, which sleeps 60 s
CycleEnd(i, answers, fault) ==
    /\ pc[i] = "fetching"
    /\ LET f == filename(ACCOUNTS[i])
           data == AwaitedSnapshot[building[i], answers]
           saved == IF data.raised
                    THEN [file |-> files[f], raised |-> TRUE, exc |-> data.exc]
                    ELSE save_to_csv(data.value, files[f], fault)
       IN  /\ files' = [files EXCEPT ![f] = saved.file]
           /\ lastError' = [lastError EXCEPT ![i] = saved.exc]
           /\ failures' = [failures EXCEPT ![i] = IF saved.raised THEN @ + 1 ELSE @]
           /\ IF ~saved.raised
              THEN /\ pc' = [pc EXCEPT ![i] = "sleeping"]
                   /\ sleepFor' = [sleepFor EXCEPT ![i] = PollSleep]
              ELSE IF except_Exception(saved.exc)
              THEN /\ pc' = [pc EXCEPT ![i] = "sleeping"]
                   /\ sleepFor' = [sleepFor EXCEPT ![i] = RetrySleep]
              ELSE /\ pc' = [pc EXCEPT ![i] = "raised"]
                   /\ sleepFor' = sleepFor
    /\ slept' = [slept EXCEPT ![i] = 0]
    /\ building' = [building EXCEPT ![i] = << >>]
    /\ UNCHANGED <<shutdown_event, cycles, process, reported, inFlightAtSignal,
                   otherVars>>

\* time passes for every task that is asleep
Tick ==
    /\ \E i \in Tasks : pc[i] = "sleeping" /\ slept[i] < sleepFor[i]
    /\ slept' = [i \in Tasks |->
                    IF pc[i] = "sleeping" THEN Min(slept[i] + TickLen, sleepFor[i])
                    ELSE slept[i]]
    /\ UNCHANGED <<shutdown_event, pc, cycles, files, sleepFor, building,
                   lastError, failures, process, reported, inFlightAtSignal,
                   otherVars>>

\* a sleep that waits on the event with a timeout, so a signal ends it early
Wake_on_signal(i) ==
    /\ pc[i] = "sleeping"
    /\ slept[i] >= sleepFor[i] \/ shutdown_event
    /\ pc' = [pc EXCEPT ![i] = "top"]
    /\ sleepFor' = [sleepFor EXCEPT ![i] = 0]
    /\ slept' = [slept EXCEPT ![i] = 0]
    /\ lastError' = [lastError EXCEPT ![i] = "none"]
    /\ UNCHANGED <<shutdown_event, cycles, files, building, failures,
                   process, reported, inFlightAtSignal,
                   otherVars>>

\* asyncio.sleep returns: the except clause, if the task was in it, ends and
\* unbinds e; back to the while condition
Wake(i) ==
    /\ pc[i] = "sleeping"
    /\ slept[i] >= sleepFor[i]
    /\ pc' = [pc EXCEPT ![i] = "top"]
    /\ sleepFor' = [sleepFor EXCEPT ![i] = 0]
    /\ slept' = [slept EXCEPT ![i] = 0]
    /\ lastError' = [lastError EXCEPT ![i] = "none"]
    /\ UNCHANGED <<shutdown_event, cycles, files, building, failures,
                   process, reported, inFlightAtSignal,
                   otherVars>>

\* main printing "Monitoring stopped." in its except KeyboardInterrupt
\* clause only, which a handled signal never enters
MainReturn_except_only ==
    /\ process = "running"
    /\ gather_done
    /\ pc' = [i \in Tasks |->
                 IF pc[i] \in {"stopped", "raised"} THEN pc[i] ELSE "cancelled"]
    /\ process' = IF \E i \in Tasks : pc[i] = "raised" THEN "crashed" ELSE "exited"
    /\ reported' = FALSE
    /\ UNCHANGED <<shutdown_event, cycles, files, sleepFor, slept, building,
                   lastError, failures, inFlightAtSignal,
                   otherVars>>

\* gather is done: main_loop returns (or raises), asyncio.run cancels what
\* still runs, and main's finally prints "Monitoring stopped."
MainReturn ==
    /\ process = "running"
    /\ gather_done
    /\ pc' = [i \in Tasks |->
                 IF pc[i] \in {"stopped", "raised"} THEN pc[i] ELSE "cancelled"]
    /\ process' = IF \E i \in Tasks : pc[i] = "raised" THEN "crashed" ELSE "exited"
    /\ reported' = TRUE
    /\ UNCHANGED <<shutdown_event, cycles, files, sleepFor, slept, building,
                   lastError, failures, inFlightAtSignal,
                   otherVars>>

\* a step of a task, of time or of main
LoopsNext ==
    \/ \E i \in Tasks : LoopExit(i)
    \/ \E i \in Tasks : \E now \in ClockReadings : CycleBegin(i, now)
    \/ \E i \in Tasks : \E answers \in LoopAnswers : \E fault \in Faults :
          CycleEnd(i, answers, fault)
    \/ Tick
    \/ \E i \in Tasks : Wake(i)
    \/ MainReturn

Next == Signal \/ LoopsNext

Spec == Init /\ [][Next]_vars

\* the same program, keeping note of the fetches the first signal found in
\* flight
NextNoted == SignalNoted \/ LoopsNext

SpecNoted == Init /\ [][NextNoted]_vars

\* what task i does next; where it is decides which of the four
TaskStep(i) ==
    \/ LoopExit(i)
    \/ \E now \in ClockReadings : CycleBegin(i, now)
    \/ \E answers \in LoopAnswers : \E fault \in Faults : CycleEnd(i, answers, fault)
    \/ Wake(i)

\* The event loop runs every task that is ready, a fetch in flight ends (the
\* transport answers or fails), timers fire, and asyncio.run returns once
\* gather is done; signals may never come.
Fairness ==
    /\ \A i \in Tasks : WF_vars(TaskStep(i))
    /\ WF_vars(Tick \/ MainReturn)

FairSpec == Spec /\ Fairness

----------------------------------------------------------------------------
(* The program from its start: the module body reads the environment,      *)
(* builds ACCOUNTS and validates it; only then does main run and create    *)
(* the monitor_account tasks.  A task that does not exist yet is           *)
(* "unstarted"; a process the validation ended is "config_error".          *)

InitStartup ==
    /\ environ \in Environments
    /\ shutdown_event = FALSE
    /\ inFlightAtSignal = {}
    /\ pc = [i \in Tasks |-> "unstarted"]
    /\ cycles = [i \in Tasks |-> 0]
    /\ files = [f \in Filenames |-> NoFile]
    /\ sleepFor = [i \in Tasks |-> 0]
    /\ slept = [i \in Tasks |-> 0]
    /\ building = [i \in Tasks |-> << >>]
    /\ lastError = [i \in Tasks |-> "none"]
    /\ failures = [i \in Tasks |-> 0]
    /\ process = "loading"
    /\ reported = FALSE
    /\ EndpointIdle /\ BuilderIdle /\ CsvIdle

\* the module body from "for account in ACCOUNTS:" on, then main() up to
\* the creation of the tasks
Startup ==
    /\ process = "loading"
    /\ IF validation_raises
          THEN process' = "config_error" /\ pc' = pc
          ELSE process' = "running" /\ pc' = [i \in Tasks |-> "top"]
    /\ UNCHANGED <<shutdown_event, inFlightAtSignal, cycles, files, sleepFor, slept,
                   building, lastError, failures, reported, otherVars>>

NextStartup == Startup \/ Next

SpecStartup == InitStartup /\ [][NextStartup]_vars

----------------------------------------------------------------------------
(* Claims about the Field Fetcher (checked under SpecEndpoint)             *)

\* C5: fetch_endpoint never raises; it returns a pair whose first component
\* is the column it was given, whose value is '' whenever the GET failed,
\* answered with a status other than 200, carried a body that is not JSON or
\* the extraction rule raised; so a value other than '' comes only from a
\* 200 answer whose extraction succeeded.
C5_FetchEndpointNeverRaises ==
    ret.returned =>
        /\ ~ret.out.raised
        /\ ret.out.value[1] = call.column
        /\ FetchFailed(call.column, call.response) => ret.out.value[2] = EmptyStr
        /\ ret.out.value[2] # EmptyStr =>
              /\ call.response.kind = "http"
              /\ call.response.status = 200
              /\ call.response.json
              /\ ~extract_func(call.column, call.response.data).raised

\* a 200 answer with a JSON body on which the extraction rule raised
C5_Witness ==
    /\ ret.returned
    /\ call.response.kind = "http"
    /\ call.response.status = 200
    /\ call.response.json
    /\ extract_func(call.column, call.response.data).raised
    /\ ret.out = Ok(<<call.column, EmptyStr>>)

\* the extraction path of a column is missing from the body x: a key on it
\* is absent or the list it reads is empty
PathMissing(column, x) ==
    CASE column = "account_balance" ->
           ~HasKey(x, "balance") \/ ~HasKey(x.balance, "amount")
      [] column = "rewards" ->
           \/ ~HasKey(x, "total")
           \/ Len(x.total) = 0
           \/ \E i \in 1..Len(x.total) : ~HasKey(x.total[i], "amount")
      [] column = "outstanding_rewards" ->
           \/ ~HasKey(x, "rewards")
           \/ ~HasKey(x.rewards, "rewards")
           \/ Len(x.rewards.rewards) = 0
           \/ ~HasKey(x.rewards.rewards[1], "amount")
      [] column = "available-tips" ->
           \/ ~HasKey(x, "tips")
           \/ Len(x.tips) = 0
           \/ \E i \in 1..Len(x.tips) :
                 ~HasKey(x.tips[i], "amount") \/ ~HasKey(x.tips[i].amount, "amount")
      [] column = "delegator_shares" ->
           ~HasKey(x, "validator") \/ ~HasKey(x.validator, "delegator_shares")
      [] column = "delegations" ->
           \/ ~HasKey(x, "delegation_responses")
           \/ Len(x.delegation_responses) = 0
           \/ \E i \in 1..Len(x.delegation_responses) :
                 \/ ~HasKey(x.delegation_responses[i], "balance")
                 \/ ~HasKey(x.delegation_responses[i].balance, "amount")

\* the call answered with a status other than 200, or with 200 and a JSON
\* body that misses the extraction path
C6_Degraded ==
    /\ call.response.kind = "http"
    /\ \/ call.response.status # 200
       \/ call.response.json /\ PathMissing(call.column, call.response.data)

\* the rule sums a list that is empty, or absent where the rule defaults it
SumsNothing(column, x) ==
    \/ column = "rewards" /\ (~HasKey(x, "total") \/ Len(x.total) = 0)
    \/ column = "available-tips" /\ (~HasKey(x, "tips") \/ Len(x.tips) = 0)
    \/ /\ column = "delegations"
       /\ HasKey(x, "delegation_responses")
       /\ Len(x.delegation_responses) = 0

\* C6 as stated: for all six columns a non-200 answer, or a 200 answer whose
\* body misses the extraction path (missing key or empty list), yields ''
\* and does not raise.
C6_Original ==
    (ret.returned /\ C6_Degraded) =>
        ~ret.out.raised /\ ret.out.value[2] = EmptyStr

\* C6 amended: such a call never raises; it yields '' except that a 200
\* answer yields the number 0 for rewards and available-tips when their list
\* key is missing or the list is empty, and for delegations when its list is
\* empty.
C6_DegradedValue ==
    (ret.returned /\ C6_Degraded) =>
        /\ ~ret.out.raised
        /\ ret.out.value[2] =
              IF /\ call.response.status = 200
                 /\ SumsNothing(call.column, call.response.data)
              THEN PyInt(0) ELSE EmptyStr

\* rewards answered 200 with a body that has no 'total': the value is 0
C6_Witness ==
    /\ ret.returned
    /\ call.column = "rewards"
    /\ call.response.kind = "http"
    /\ call.response.status = 200
    /\ call.response.json
    /\ ~HasKey(call.response.data, "total")
    /\ ret.out = Ok(<<"rewards", PyInt(0)>>)

----------------------------------------------------------------------------
(* Claims about the Account Snapshot Builder (checked under SpecBuilder)   *)

\* C7: whatever fetches failed, fetch_data_for_account does not raise and
\* returns a dict whose keys are exactly timestamp and the six columns, each
\* failed column holding ''.
C7_SnapshotComplete ==
    results.returned =>
        /\ ~results.out.raised
        /\ LET d == results.out.value
           IN  /\ Len(d) = 1 + Len(Columns)
               /\ {d[i][1] : i \in 1..Len(d)} = {"timestamp"} \cup ColumnSet
               /\ \A c \in ColumnSet : taskResult[c].failed => DictGet(d, c) = EmptyStr

\* all six fetches failed and the snapshot was returned
C7_Witness ==
    /\ results.returned
    /\ \A c \in ColumnSet : taskResult[c].done /\ taskResult[c].failed
    /\ ~results.out.raised
    /\ Len(results.out.value) = 7

----------------------------------------------------------------------------
(* Claims about the CSV Appender (checked under SpecCsv)                   *)

\* the path did not exist before the first call and no call raised
FreshAndWritten ==
    /\ Len(csvLog) >= 1
    /\ ~csvLog[1].existed
    /\ \A k \in 1..Len(csvLog) : ~csvLog[k].raised

\* C8: N snapshots written one after another to a path that did not exist
\* give a file of 1 header line and N data lines; the header is the first
\* snapshot's keys, and cell i of data line k is snapshot k's value for the
\* column the header names at i.
C8_HeaderThenRows ==
    FreshAndWritten =>
        LET lines == csvFile.lines
            header == lines[1]
        IN  /\ Len(lines) = 1 + Len(csvLog)
            /\ header = DictKeys(csvLog[1].data)
            /\ \A k \in 1..Len(csvLog) :
                  /\ lines[k + 1] # header
                  /\ Len(lines[k + 1]) = Len(header)
                  /\ \A i \in 1..Len(header) :
                        lines[k + 1][i] = CsvCell(DictGet(csvLog[k].data, header[i]))

\* two snapshots or more were written to a path that did not exist
C8_Witness ==
    /\ FreshAndWritten
    /\ Len(csvLog) >= 2
    /\ Len(csvFile.lines) = 1 + Len(csvLog)

\* C9: a save_to_csv call on a file that exists leaves every line the file
\* held in place and, when it returns, has appended exactly one line after
\* them, the snapshot's data row: no header is added or rewritten.  (A call
\* that raises appends nothing.)
C9_AppendOnly ==
    [][(csvFile.exists /\ Len(csvLog') = Len(csvLog) + 1) =>
          LET e == csvLog'[Len(csvLog')]
          IN  IF e.raised
              THEN csvFile'.lines = csvFile.lines
              ELSE /\ csvFile'.lines = Append(csvFile.lines, RowLine(e.data))
                   /\ RowLine(e.data) # HeaderLine(e.data)]_vars

\* an earlier run's file with a header and a row got one more row
C9_Witness ==
    /\ Len(csvLog) = 1
    /\ csvLog[1].existed
    /\ ~csvLog[1].raised
    /\ Len(csvFile.lines) = 3
    /\ csvFile.lines[1] = HeaderLine(csvLog[1].data)

----------------------------------------------------------------------------
(* Claims about the Account Monitor Loop and the Supervisor                *)

\* iterations of task i whose fetch, save and except clause are over
Completed(i) == cycles[i] - (IF pc[i] = "fetching" THEN 1 ELSE 0)

\* C1 (under FairSpec): a task that reaches the while condition with the
\* Shutdown Signal set, its first time included, starts no fetch and writes
\* nothing to its file from then on, and it reaches "stopped".
C1_ShutdownAtLoopTop ==
    /\ [][\A i \in Tasks :
            (pc[i] = "top" /\ shutdown_event) =>
                /\ pc'[i] \in {"top", "stopped"}
                /\ cycles'[i] = cycles[i]
                /\ building'[i] = building[i]
                /\ files'[filename(ACCOUNTS[i])] = files[filename(ACCOUNTS[i])]]_vars
    /\ \A i \in Tasks : (pc[i] = "top" /\ shutdown_event) ~> (pc[i] = "stopped")

\* the signal came before a task's first cycle: it stopped without a fetch
\* and without a file
C1_Witness ==
    \E i \in Tasks :
        /\ pc[i] = "stopped"
        /\ cycles[i] = 0
        /\ ~files[filename(ACCOUNTS[i])].exists

\* C2: a loop is "stopped" only with the Shutdown Signal set, no exception
\* ever leaves it, and the step that ends a cycle's fetch and save, raising
\* or not, leaves the task asleep, not ended.
C2_LoopExitsOnlyOnShutdown ==
    /\ [](\A i \in Tasks :
            /\ pc[i] = "stopped" => shutdown_event
            /\ pc[i] \notin {"raised", "cancelled"})
    /\ [][\A i \in Tasks :
            (pc[i] = "fetching" /\ pc'[i] # "fetching") => pc'[i] = "sleeping"]_vars

\* a cycle raised, a later one is in progress, and no signal has come
C2_Witness ==
    \E i \in Tasks :
        /\ failures[i] >= 1
        /\ pc[i] = "fetching"
        /\ cycles[i] >= 2
        /\ ~shutdown_event

\* C3 (under FairSpec): the step in which save_to_csv raises leaves the task
\* in its except clause asleep for 60 seconds, not 300; and from that sleep
\* the task either sees the Shutdown Signal or begins a new cycle, the next
\* one, with a fetch (cycles below the bound of the model).
C3_RetryAfterSaveError ==
    /\ [][\A i \in Tasks :
            /\ failures'[i] > failures[i] =>
                  /\ pc'[i] = "sleeping"
                  /\ sleepFor'[i] = 60
                  /\ slept'[i] = 0
                  /\ lastError'[i] = "OSError"
            /\ (pc[i] # "fetching" /\ pc'[i] = "fetching") =>
                  cycles'[i] = cycles[i] + 1]_vars
    /\ \A i \in Tasks :
          (pc[i] = "sleeping" /\ lastError[i] # "none" /\ cycles[i] < MaxCycles)
            ~> (shutdown_event \/ pc[i] = "fetching")

\* the first cycle's save raised, and the second cycle appended its row
C3_Witness ==
    \E i \in Tasks :
        /\ failures[i] = 1
        /\ cycles[i] = 2
        /\ pc[i] = "sleeping"
        /\ sleepFor[i] = 300
        /\ Len(files[filename(ACCOUNTS[i])].lines) >= 1

\* every cycle of account A (task 1) so far succeeded and every cycle of
\* account B (task 2) so far raised
OnlyBFails == failures[1] = 0 /\ failures[2] = Completed(2)

\* C4: while every save of B fails and every cycle of A succeeds, A's file
\* holds its header and one row per finished cycle of A and A sleeps 300 s
\* between cycles, whatever B does; B is never ended by its errors and sleeps
\* 60 s after each; and the process reports and exits only with the
\* Shutdown Signal set.
C4_FailuresIsolated ==
    OnlyBFails =>
        /\ Len(files[filename(ACCOUNTS[1])].lines) =
              IF Completed(1) = 0 THEN 0 ELSE 1 + Completed(1)
        /\ pc[1] = "sleeping" => sleepFor[1] = 300
        /\ pc[2] = "sleeping" => sleepFor[2] = 60
        /\ pc[2] \notin {"raised", "cancelled"}
        /\ pc[2] = "stopped" => shutdown_event
        /\ pc[1] \notin {"raised", "cancelled"}
        /\ pc[1] = "stopped" => shutdown_event
        /\ (process # "running" \/ reported) => shutdown_event

\* B failed twice and is retrying, A appended two rows, nothing has stopped
C4_Witness ==
    /\ OnlyBFails
    /\ failures[2] = 2
    /\ Completed(1) = 2
    /\ Len(files[filename(ACCOUNTS[1])].lines) = 3
    /\ pc[2] = "sleeping"
    /\ process = "running"
    /\ ~shutdown_event

\* C10: "Monitoring stopped." is printed, and the process has left
\* asyncio.run, only when every monitor loop has stopped: never while a loop
\* is fetching, writing or sleeping.
C10_ReportAfterAllStopped ==
    (reported \/ process # "running") =>
        /\ reported
        /\ \A i \in Tasks : pc[i] = "stopped"

\* the final status was printed after both loops had run cycles
C10_Witness ==
    /\ reported
    /\ process = "exited"
    /\ \A i \in Tasks : cycles[i] >= 1 /\ pc[i] = "stopped"

----------------------------------------------------------------------------
(* Graceful shutdown, the signal, and startup validation *)

\* C11: under fair scheduling (every task whose await can finish does take
\* its step, time passes, main resumes), once the shutdown event is set
\* every monitor loop reaches "stopped" and the process prints its final
\* status and exits; and from the moment the event is set no loop begins
\* another cycle, so a loop needs at most the cycle it is in and one sleep.
C11_ShutdownIsLive ==
    /\ shutdown_event ~> (/\ \A i \in Tasks : pc[i] = "stopped"
                          /\ process = "exited"
                          /\ reported)
    /\ [][shutdown_event => cycles' = cycles]_vars

\* the event is set while one loop is in its 300 s sleep after a good cycle
\* and the other has its fetches in flight
C11_Witness ==
    /\ shutdown_event
    /\ process = "running"
    /\ pc[1] = "sleeping" /\ sleepFor[1] = 300 /\ slept[1] < 300
    /\ pc[2] = "fetching"

\* C12: the shutdown event is monotone and its handler idempotent: no step
\* of the program resets the event once it is set, and a signal delivered
\* when the event is already set changes nothing at all.
C12_SignalMonotoneIdempotent ==
    /\ [][shutdown_event => shutdown_event']_vars
    /\ [][(shutdown_event /\ signal_handler) => UNCHANGED vars]_vars

\* the event is set, loops are still at work, and a further signal can be
\* delivered
C12_Witness ==
    /\ shutdown_event
    /\ ENABLED signal_handler
    /\ \E i \in Tasks : pc[i] = "sleeping" /\ cycles[i] = MaxCycles

\* some configured account lacks a non-empty name, address or validator
\* address
Misconfigured ==
    \E i \in Tasks :
        \/ ACCOUNTS[i].name \in {None, Text("")}
        \/ ACCOUNTS[i].address \in {None, Text("")}
        \/ ACCOUNTS[i].valoper_address \in {None, Text("")}

\* C13: when any configured account lacks a non-empty name, address or
\* validator address, the program ends in a configuration error before any
\* monitoring: no loop is ever started, no cycle begun, no fetch is in
\* flight and no CSV file is written, for any account.
C13_MisconfiguredNeverMonitors ==
    Misconfigured =>
        /\ process \in {"loading", "config_error"}
        /\ ~reported
        /\ \A i \in Tasks :
              pc[i] = "unstarted" /\ cycles[i] = 0 /\ building[i] = << >>
        /\ \A f \in DOMAIN files : files[f] = NoFile

\* the configuration error has been raised although account 1 is configured
\* in full: only account 2 lacks its address
C13_Witness ==
    /\ process = "config_error"
    /\ all_values(ACCOUNTS[1])
    /\ bool(ACCOUNTS[2].name)
    /\ ACCOUNTS[2].address = None

----------------------------------------------------------------------------
(* Where the loop reads the event, and how it paces itself *)

\* C14 as stated: a loop whose cycle finishes while the event is set reads
\* the event before it starts the 300 s or 60 s sleep, so it does not go to
\* sleep; and a loop that reads the set event at its loop top returns.
C14_Original ==
    [][\A i \in Tasks :
          /\ (shutdown_event /\ pc[i] = "fetching" /\ pc'[i] # "fetching")
                => pc'[i] # "sleeping"
          /\ (shutdown_event /\ pc[i] = "top" /\ pc'[i] # "top")
                => pc'[i] = "stopped"]_vars

\* C14: a loop reads the event once per iteration, at its loop top, that is
\* only after a sleep and never before one: a cycle that finishes goes
\* straight into its 300 s or 60 s sleep whether or not the event is set,
\* the sleep runs its full length, it ends at the loop top, and only there,
\* with the event set, does the loop return.
C14_PolledOnlyAtLoopTop ==
    [][\A i \in Tasks :
          /\ (pc[i] = "fetching" /\ pc'[i] # "fetching")
                => (pc'[i] = "sleeping" /\ sleepFor'[i] \in {300, 60}
                    /\ slept'[i] = 0)
          /\ (pc[i] = "sleeping" /\ pc'[i] # "sleeping")
                => (pc'[i] = "top" /\ slept[i] >= sleepFor[i])
          /\ (shutdown_event /\ pc[i] = "top" /\ pc'[i] # "top")
                => pc'[i] = "stopped"
          /\ (pc[i] # "stopped" /\ pc'[i] = "stopped")
                => (shutdown_event /\ pc[i] = "top")]_vars

\* the event was set while the fetches of a task were in flight; its cycle
\* has since finished and its sleep has run to its full length
C14_Witness ==
    \E i \in Tasks :
        /\ i \in inFlightAtSignal
        /\ pc[i] = "sleeping"
        /\ slept[i] = sleepFor[i]

\* C15: pacing.  The sleep a loop takes is decided by the cycle that has just
\* finished and by nothing earlier: 300 s when it did not raise, 60 s when it
\* raised (a cycle raised exactly when it is counted in failures).  A sleep
\* starts with no time elapsed, the loop leaves it only for its loop top and
\* only once the full 300 s or 60 s have elapsed, and a snapshot build begins
\* only at the loop top.
C15_Pacing ==
    /\ [](\A i \in Tasks :
             pc[i] = "sleeping" =>
                 /\ sleepFor[i] = IF lastError[i] = "none" THEN 300 ELSE 60
                 /\ slept[i] <= sleepFor[i])
    /\ [][\A i \in Tasks :
             /\ (pc[i] = "fetching" /\ pc'[i] # "fetching")
                   => /\ pc'[i] = "sleeping" /\ slept'[i] = 0
                      /\ (lastError'[i] = "none") <=> (failures'[i] = failures[i])
                      /\ (lastError'[i] # "none") <=> (failures'[i] = failures[i] + 1)
             /\ (pc[i] # "top" /\ pc'[i] = "top")
                   => /\ pc[i] = "sleeping"
                      /\ slept[i] >= (IF lastError[i] = "none" THEN 300 ELSE 60)
             /\ (cycles'[i] # cycles[i]) => pc[i] = "top"]_vars

\* a loop whose earlier cycle raised has finished a good cycle and slept the
\* full 300 s, while the other loop sits in the 60 s sleep of a failed cycle
C15_Witness ==
    /\ pc[1] = "sleeping" /\ failures[1] = 1 /\ lastError[1] = "none"
    /\ sleepFor[1] = 300 /\ slept[1] = 300
    /\ pc[2] = "sleeping" /\ lastError[2] # "none" /\ sleepFor[2] = 60

----------------------------------------------------------------------------
(* Cancellation, completion order and the writes of one account *)

\* C16: cancellation is cooperative.  The step that sets the event changes
\* no task, no fetch in flight and no file.  A cycle that ends with the event
\* set ends as any cycle does: with all six columns fetched, its row of seven
\* cells is appended after the lines already in the file (with the header
\* before it when the file did not exist) unless the cycle raised, and the loop goes to
\* sleep.  A loop returns from its loop top only.  So a loop whose fetches
\* were in flight when the event was set, and that never raised, has one
\* row in its file for every cycle it began, that one included.
C16_CooperativeCancellation ==
    /\ [][(~shutdown_event /\ shutdown_event')
             => (pc' = pc /\ building' = building /\ files' = files
                 /\ cycles' = cycles)]_vars
    /\ [][\A i \in Tasks :
             LET old == files[filename(ACCOUNTS[i])].lines
                 new == files'[filename(ACCOUNTS[i])].lines
             IN  /\ (shutdown_event /\ pc[i] = "fetching" /\ pc'[i] # "fetching")
                       => /\ pc'[i] = "sleeping"
                          /\ failures'[i] = failures[i] =>
                                /\ Len(new) = Len(old) + (IF files[filename(ACCOUNTS[i])].exists THEN 1 ELSE 2)
                                /\ SubSeq(new, 1, Len(old)) = old
                                /\ Len(new[Len(new)]) = 1 + Len(Columns)
                                /\ new[Len(new)][1] = CsvCell(DictGet(building[i], "timestamp"))
                 /\ (pc[i] # "stopped" /\ pc'[i] = "stopped") => pc[i] = "top"]_vars
    /\ [](\A i \in Tasks :
             (i \in inFlightAtSignal /\ pc[i] # "fetching" /\ failures[i] = 0)
                 => Len(files[filename(ACCOUNTS[i])].lines) = 1 + cycles[i])

\* the event was set while the fetches of a task's second cycle were in
\* flight; the task has stopped and both rows are in its file
C16_Witness ==
    \E i \in Tasks :
        /\ i \in inFlightAtSignal
        /\ pc[i] = "stopped"
        /\ cycles[i] = 2 /\ failures[i] = 0
        /\ Len(files[filename(ACCOUNTS[i])].lines) = 3

\* C17: the snapshot does not depend on the order in which the six fetches
\* of a cycle finish.  Whatever that order, the dict fetch_data_for_account
\* returns has the keys timestamp, account_balance, rewards,
\* outstanding_rewards, available-tips, delegator_shares, delegations in this
\* order, each column holds the value its own fetch returned, and so the
\* header and the row save_to_csv would write have this layout too.
C17_OrderIndependent ==
    results.returned =>
        LET d == results.out.value
        IN  /\ ~results.out.raised
            /\ DictKeys(d) = <<"timestamp", "account_balance", "rewards",
                               "outstanding_rewards", "available-tips",
                               "delegator_shares", "delegations">>
            /\ HeaderLine(d) = DictKeys(d)
            /\ \A c \in ColumnSet : DictGet(d, c) = taskResult[c].out.value[2]
            /\ \A i \in 1..Len(Columns) :
                  RowLine(d)[i + 1] = CsvCell(taskResult[Columns[i]].out.value[2])
            /\ d = fetch_data_for_account(
                       DictGet(d, "timestamp").s,
                       [c \in ColumnSet |->
                           IF taskResult[c].failed THEN AllDown[c] ELSE AllUp[c]]).value

\* the call has returned after its fetches finished in the reverse of their
\* task order, the first and the last of them having failed
C17_Witness ==
    /\ results.returned
    /\ finished = <<"delegations", "delegator_shares", "available-tips",
                    "outstanding_rewards", "rewards", "account_balance">>
    /\ taskResult["account_balance"].failed
    /\ taskResult["delegations"].failed
    /\ ~taskResult["rewards"].failed

\* the rows of snapshots in the file of task i: its lines other than headers
DataRows(i) ==
    LET lines == files[filename(ACCOUNTS[i])].lines
    IN  Cardinality({k \in 1..Len(lines) : lines[k][1] # "timestamp"})

\* C18: the CSV writes of one account are strictly sequential.  In every
\* state each cycle of a loop other than the one whose fetches are in flight
\* has had its write finished: it either added its row or raised.  A loop
\* begins the fetches of its next cycle only from its loop top, with no
\* snapshot of its own pending, and in a step that writes nothing.  A file
\* changes only in the step that ends a cycle of its own loop, by that one
\* write (the header if there was none, and the row), and no other file
\* changes in that step.
C18_WritesSequential ==
    /\ [](\A i \in Tasks : DataRows(i) + failures[i] = Completed(i))
    /\ [][\A i \in Tasks :
             LET f == filename(ACCOUNTS[i])
             IN  /\ (cycles'[i] # cycles[i])
                       => /\ pc[i] = "top" /\ building[i] = << >>
                          /\ cycles'[i] = cycles[i] + 1
                          /\ files' = files
                 /\ (files'[f] # files[f])
                       => /\ pc[i] = "fetching" /\ pc'[i] = "sleeping"
                          /\ Len(files'[f].lines) <= Len(files[f].lines) + 2
                          /\ \A j \in Tasks \ {i} :
                                files'[filename(ACCOUNTS[j])] =
                                    files[filename(ACCOUNTS[j])]]_vars

\* the fetches of a loop's second cycle are in flight after the write of its
\* first cycle raised, while the other loop, both its writes done, sleeps
C18_Witness ==
    /\ pc[1] = "fetching" /\ cycles[1] = 2 /\ failures[1] = 1 /\ DataRows(1) = 0
    /\ pc[2] = "sleeping" /\ cycles[2] = 2 /\ failures[2] = 0 /\ DataRows(2) = 2

----------------------------------------------------------------------------
(* The files of different accounts, and the header under write failures *)

\* C19: no two loops write the same CSV file.  For every configuration that
\* passes the startup validation the target files of any two loops are
\* different files, and the file of a loop never holds more snapshot rows
\* than that loop has written.
C19_NoSharedFile ==
    (process # "loading" /\ ~validation_raises) =>
        /\ \A i, j \in Tasks :
              i # j => filename(ACCOUNTS[i]) # filename(ACCOUNTS[j])
        /\ \A i \in Tasks : DataRows(i) <= Completed(i)

\* C20: the header under failures.  Whatever calls of save_to_csv raised, at
\* its open, at its header or at its row, a file that holds at least one
\* snapshot row begins with the header row and holds no second one.
C20_HeaderUnderFailures ==
    \A i \in Tasks :
        LET lines == files[filename(ACCOUNTS[i])].lines
        IN  DataRows(i) >= 1 =>
                /\ lines[1] = <<"timestamp">> \o Columns
                /\ \A k \in 2..Len(lines) : lines[k][1] # "timestamp"

============================================================================
